---- MODULE Spec2Model ----
(***************************************************************************)
(* Pantheon (src/main.py): the batch OCR worker, the stitch-and-compile    *)
(* worker and the frame's button handling, as state machines.              *)
(***************************************************************************)
EXTENDS Integers, Sequences, FiniteSets, TLC

(***************************************************************************)
(* Python float arithmetic (IEEE-754 binary64, round to nearest, ties to   *)
(* even) for the progress expressions of _perform_ocr_workflow_for_list.   *)
(* A positive float is [l, e]: l = <<l1, l2, l3, l4>> are four 14-bit      *)
(* limbs of its significand, most significant first, of which the top 53   *)
(* bits are used (the low 3 bits of l4 are 0), and its value is            *)
(* 0.l1l2l3l4 * 2^e with l1 >= 2^13.  Zero has all limbs 0.                *)
(***************************************************************************)
LimbBase == 16384

RECURSIVE Pow2(_)
Pow2(n) == IF n = 0 THEN 1 ELSE 2 * Pow2(n - 1)

FZero == [l |-> <<0, 0, 0, 0>>, e |-> 0]

\* round a 56-bit significand to 53 bits: to nearest, ties to even
RoundNearestEven(l, sticky_below, e) ==
    LET low     == l[4] % 8
        guard   == low \div 4
        sticky  == (low % 4 # 0) \/ sticky_below
        lastbit == (l[4] \div 8) % 2
        up      == guard = 1 /\ (sticky \/ lastbit = 1)
        k4      == l[4] - low + (IF up THEN 8 ELSE 0)
        k3      == l[3] + k4 \div LimbBase
        k2      == l[2] + k3 \div LimbBase
        k1      == l[1] + k2 \div LimbBase
    IN  IF k1 = LimbBase
        THEN [l |-> <<LimbBase \div 2, 0, 0, 0>>, e |-> e + 1]
        ELSE [l |-> <<k1, k2 % LimbBase, k3 % LimbBase, k4 % LimbBase>>, e |-> e]

RECURSIVE ExpAbove(_, _, _)
\* least e >= from with p < q * 2^e
ExpAbove(p, q, from) == IF p < q * Pow2(from) THEN from ELSE ExpAbove(p, q, from + 1)

RECURSIVE ShiftBelow(_, _, _)
\* greatest k >= from with p * 2^k < q, given p * 2^from < q
ShiftBelow(p, q, from) ==
    IF p * Pow2(from + 1) < q THEN ShiftBelow(p, q, from + 1) ELSE from

\* p / q of two Python ints (true division, correctly rounded)
FDiv(p, q) ==
    IF p = 0 THEN FZero
    ELSE LET up  == p >= q
             e   == IF up THEN ExpAbove(p, q, 1) ELSE 0 - ShiftBelow(p, q, 0)
             num == IF up THEN p ELSE p * Pow2(0 - e)
             den == IF up THEN q * Pow2(e) ELSE q
             c1  == num * LimbBase
             c2  == (c1 % den) * LimbBase
             c3  == (c2 % den) * LimbBase
             c4  == (c3 % den) * LimbBase
         IN  RoundNearestEven(<<c1 \div den, c2 \div den, c3 \div den, c4 \div den>>,
                              c4 % den # 0, e)

RECURSIVE BitLength(_)
BitLength(n) == IF n = 0 THEN 0 ELSE 1 + BitLength(n \div 2)

\* x * c for a float x and a small positive Python int c
FMulInt(x, c) ==
    IF x.l[1] = 0 THEN FZero
    ELSE LET t4  == x.l[4] * c
             t3  == x.l[3] * c + t4 \div LimbBase
             t2  == x.l[2] * c + t3 \div LimbBase
             t1  == x.l[1] * c + t2 \div LimbBase
             top == t1 \div LimbBase
             s   == BitLength(top)
             lo  == Pow2(s)
             hi  == LimbBase \div lo
             m1  == t1 % LimbBase
             m2  == t2 % LimbBase
             m3  == t3 % LimbBase
             m4  == t4 % LimbBase
         IN  RoundNearestEven(<<top * hi + m1 \div lo,
                                (m1 % lo) * hi + m2 \div lo,
                                (m2 % lo) * hi + m3 \div lo,
                                (m3 % lo) * hi + m4 \div lo>>,
                              m4 % lo # 0, x.e + s)

\* x / 2^k: exact
FDivPow2(x, k) == IF x.l[1] = 0 THEN FZero ELSE [l |-> x.l, e |-> x.e - k]

\* int(x): truncation toward zero, for x < 2^14
FTrunc(x) ==
    IF x.l[1] = 0 \/ x.e <= 0 THEN 0 ELSE x.l[1] \div Pow2(14 - x.e)

\* int((i / total_files) * 100)
ProgressStart(i, total_files) == FTrunc(FMulInt(FDiv(i, total_files), 100))

\* int(k * (100 / total_files) / 4)
QuarterShare(k, total_files) ==
    FTrunc(FDivPow2(FMulInt(FDiv(100, total_files), k), 2))

\* int(((i + 1) / total_files) * 100)
ProgressEnd(i, total_files) == FTrunc(FMulInt(FDiv(i + 1, total_files), 100))

(***************************************************************************)
(* The files the user can select for OCR and the records of the json       *)
(* directory.  A record is named after the image with its suffix replaced. *)
(***************************************************************************)
MaxSelected == 2

SelectablePaths ==
    { [stem |-> "a", suffix |-> ".png"],
      [stem |-> "a", suffix |-> ".jpg"],
      [stem |-> "b", suffix |-> ".png"] }

\* image_path.with_suffix(".json").name
JsonName(image_path) == image_path.stem

JsonNames == { JsonName(p) : p \in SelectablePaths }

NoFile == [kind |-> "absent"]

\* what ocr_response_obj can be: the method the response offers, and whether
\* that method returns (for "raw": whether the object is JSON-serialisable)
Responses ==
    [shape : {"model_dump", "dict", "raw"}, convertible : BOOLEAN]

None == [shape |-> "None"]

(***************************************************************************)
(* Persisted records as the stitcher reads them.  Strings the code takes   *)
(* apart are sequences of tokens: a data URI is                            *)
(* <<"data", ":", "image", "/", "png", ";", "base64", ",", payload>>, and  *)
(* markdown is a sequence of text tokens and image references              *)
(* [alt, target], the reference ![alt](target).                            *)
(***************************************************************************)
MaxRecords == 2

Punctuation == {":", "/", ";", ",", "+", "-", "."}

\* the payloads base64.b64decode accepts, and the bytes it returns
DecodedBytes == [QkE |-> "BA", QkI |-> "BB"]

Ref(alt, id) == [alt |-> alt, id |-> id]

\* the same syntax once the id has been replaced by the path of a file
Link(alt, path) == [alt |-> alt, path |-> path]

\* a run of markdown with no image reference in it
Text(s) == [text |-> s]

DataUri(subtype_tokens, payload) ==
    <<"data", ":", "image", "/">> \o subtype_tokens \o <<";", "base64", ",", payload>>

\* a JSON object {id, image_base64}; type is the JSON type of the value
ImageInfo(id, image_base64) ==
    [type |-> "object", id |-> id, image_base64 |-> image_base64]

ImagePng == ImageInfo("img1", DataUri(<<"png">>, "QkE"))
ImageSvg == ImageInfo("img2", DataUri(<<"svg", "+", "xml">>, "QkI"))
ImageRaw == ImageInfo("img3", <<"QkI">>)
ImageBadPadding == ImageInfo("img4", DataUri(<<"png">>, "Qk"))
ImageNoId == ImageInfo("", <<"QkE">>)
\* a second entry with the id of ImageSvg
ImageSameId == ImageInfo("img2", <<"QkE">>)

PageText == [markdown |-> <<Text("Done.")>>, images |-> <<>>]
PageOneImage == [markdown |-> <<Text("See "), Ref("", "img1")>>, images |-> <<ImagePng>>]
PageEmpty == [markdown |-> <<>>, images |-> <<ImagePng>>]
\* a page with no "markdown" key
PageNoMarkdown == [images |-> <<ImagePng>>]
PageMixed ==
    [markdown |-> <<Ref("img4", "img4"), Ref("", "img3"), Ref("img2", "img2"),
                    Ref("fig", "img2")>>,
     images |-> <<ImageBadPadding, ImageNoId, ImageRaw, ImageSvg, ImageSameId>>]
\* an entry of the images list that is not an object
PageMalformed ==
    [markdown |-> <<Text("Text")>>, images |-> <<[type |-> "string"], ImagePng>>]

\* the dict a convertible response dumps to
OcrDict == [type |-> "object", pages |-> <<PageOneImage, PageText>>]

ErrorMarker ==
    [type |-> "object", error |-> "Failed to serialize OCR response",
     details |-> "str(e)"]

RecordData ==
    { OcrDict,
      ErrorMarker,
      [type |-> "object", pages |-> <<PageEmpty, PageNoMarkdown, PageMixed>>],
      [type |-> "object", pages |-> <<PageMalformed, PageText>>],
      [type |-> "array", items |-> <<PageText>>] }

\* what a file of the json directory can hold: a dumped record, or what an
\* interrupted json.dump left of it
StoredFiles ==
    [kind : {"record"}, data : RecordData, by : {"earlier run"}]
        \cup {[kind |-> "truncated", by |-> "earlier run"]}

SubSteps == <<"normalize", "encode", "submit", "persist">>

\* the value of the update_progress call at a call site of the loop body:
\* sites 1-3 are the quarters before normalize, encode and submit (lines
\* 745-748, 763-766, 776-779), site 4 the end of the item's share (830-832)
ProgressAt(site, idx, n) ==
    IF site = 4 THEN ProgressEnd(idx, n)
    ELSE ProgressStart(idx, n) + QuarterShare(site, n)

\* a retry of a failed request
OcrProcessCallsWithRetry(response) == IF response.shape = "None" THEN 2 ELSE 1

\* mistral_client.ocr.process is called once by _request_mistral_ocr
OcrProcessCalls(response) == 1

VARIABLES
    image_paths,      \* the worker's argument: the selected image files, in order
    pc,               \* the worker's position
    i,                \* the index of the for loop (0-based)
    tmpdirs,          \* the temporary directories that exist (by item index)
    temp_pdfs,        \* the temporary PDF files that exist (by item index)
    ocr_response_obj, \* the local of that name
    ocr_data_dict,    \* the local of that name
    save_exception,   \* the exception caught at line 816, or "none"
    json_dir,         \* json_output_dir: record name -> the file's content
    requests,         \* item index -> calls of mistral_client.ocr.process
    steps_done,       \* item index -> the sub-steps that completed
    failed_at,        \* item index -> the sub-step that failed, or "none"
    calls,            \* the wx.CallAfter calls the worker issued, in order
    target,           \* the function the worker thread runs
    other_entries,    \* does the json directory hold anything but *.json files
    json_files,       \* the stitcher's argument: the sorted record names
    page_idx,         \* the index of the loop over a record's pages
    img_idx,          \* the index of the loop over a page's images
    markdown_content, \* the local of that name
    image_file_counter,
    stitched_md,      \* stitched_document.md: does it exist, and its text
    images_dir,       \* the files of the images directory
    image_log,        \* what became of each entry of an images list, in order
    pandoc_outcome,   \* what subprocess.run returned or raised, "none" before
    first_run,        \* what the first stitch run of the behaviour left, if it ended
    progress,         \* the last update_progress call of the worker and the one before
    mistral_client,   \* ImageFrame: is the client initialised
    current_opened_folder_path,
    all_selected_item_paths,
    run_ocr_button,   \* is the button enabled
    stitch_pdf_button,
    delete_button,
    threads,          \* the worker threads that have not returned, oldest first
    pending,          \* the callables wx.CallAfter queued for the main loop
    taken,            \* how many of the worker's calls the main loop has dequeued
    delivered         \* the calls the main loop has run, in order

batch_vars == <<image_paths, tmpdirs, temp_pdfs, ocr_response_obj, ocr_data_dict,
                save_exception, requests, steps_done, failed_at>>

stitch_vars == <<other_entries, json_files, page_idx, img_idx, markdown_content,
                 image_file_counter, stitched_md, images_dir, image_log,
                 pandoc_outcome, first_run>>

loop_vars == <<taken, delivered>>

frame_vars == <<mistral_client, current_opened_folder_path, all_selected_item_paths,
                run_ocr_button, stitch_pdf_button, delete_button, threads, pending,
                loop_vars>>

worker_vars == <<target, pc, i, calls, json_dir, batch_vars, stitch_vars>>

vars == <<worker_vars, progress, frame_vars>>

total_files == Len(image_paths)

image_path == image_paths[i + 1]

RECURSIVE SeqsNoDup(_, _)
\* the sequences of at most n distinct elements of S
SeqsNoDup(S, n) ==
    IF n = 0 THEN {<<>>}
    ELSE LET shorter == SeqsNoDup(S, n - 1)
         IN  shorter \cup { Append(s, x) : <<s, x>> \in
                              { <<s, x>> \in shorter \X S :
                                    /\ Len(s) = n - 1
                                    /\ \A j \in 1..Len(s) : s[j] # x } }

\* on_run_ocr_button_clicked starts the worker only with a non-empty list
\* of selected image files; a tree selection holds no path twice
OcrTargetLists == SeqsNoDup(SelectablePaths, MaxSelected) \ {<<>>}

ProgressCall(value, item, site) ==
    [fn |-> "update_progress", value |-> value, item |-> item, site |-> site]

\* update_status(message, field): the message is its text and the values
\* the f-string interpolates
StatusCall(text, args, field) ==
    [fn |-> "update_status", text |-> text, args |-> args, field |-> field]

\* a helper's wx.CallAfter(status_callback, msg): the callback posts
\* update_status(msg, 1) when the UI thread runs it
CallbackCall(text, args) ==
    [fn |-> "status_callback", text |-> text, args |-> args]

LogErrorCall(text, args) == [fn |-> "wx.LogError", text |-> text, args |-> args]

LogWarningCall(text, args) == [fn |-> "wx.LogWarning", text |-> text, args |-> args]

MessageBoxCall(text, args) == [fn |-> "wx.MessageBox", text |-> text, args |-> args]

\* wx.CallAfter(self.<button>.Enable)
EnableCall(button) == [fn |-> "Enable", button |-> button]

EnableButtons ==
    <<EnableCall("run_ocr_button"), EnableCall("stitch_pdf_button"),
      EnableCall("delete_button")>>

RefreshCall == [fn |-> "refresh_tree_due_to_fs_event"]

\* _image_to_pdf: the calls it issues
_image_to_pdf(path, ok) ==
    <<CallbackCall("Converting to PDF...", <<path>>)>> \o
    (IF ok THEN <<CallbackCall("Converted to PDF", <<path>>)>>
     ELSE <<LogErrorCall("Error converting to PDF", <<path>>),
            CallbackCall("Failed to convert to PDF.", <<path>>)>>)

\* _encode_pdf_to_base64: the calls it issues
_encode_pdf_to_base64(path, ok) ==
    <<CallbackCall("Encoding to base64...", <<path>>)>> \o
    (IF ok THEN <<CallbackCall("Encoded.", <<path>>)>>
     ELSE <<LogErrorCall("Error encoding PDF", <<path>>),
            CallbackCall("Encoding failed", <<path>>)>>)

\* _request_mistral_ocr: the calls it issues
_request_mistral_ocr(path, response) ==
    <<CallbackCall("Requesting Mistral OCR...", <<path>>)>> \o
    (IF response # None THEN <<CallbackCall("OCR received.", <<path>>)>>
     ELSE <<LogErrorCall("Error during Mistral OCR", <<path>>)>>)

\* a directory made with tempfile.mkdtemp, which nothing removes
ExitWithoutCleanup(dirs, item) == dirs

\* leaving the with block of tempfile.TemporaryDirectory removes the
\* directory and what is in it
ExitTemporaryDirectory(dirs, item) == dirs \ {item}

\* a failed sub-step that ends the loop
AfterFailureBreak(step) == "complete"

\* a failed normalize or encode that does not `continue`
AfterFailureNoContinue(step) == "end_share"

\* where a failed sub-step sends the loop: `continue` after normalize and
\* encode, the end of the item's share after submit and persist
AfterFailure(step) ==
    IF step \in {"normalize", "encode"} THEN "continue" ELSE "end_share"

\* the for loop's next iteration, or the code after the loop
NextIteration(idx) == IF idx + 1 < total_files THEN "item" ELSE "complete"

Goto(label) == IF label = "continue" THEN NextIteration(i) ELSE label

Batching == target = "_perform_ocr_workflow_for_list"

\* the locals of a worker that has not run
BatchLocalsInit ==
    /\ tmpdirs = {}
    /\ temp_pdfs = {}
    /\ ocr_response_obj = None
    /\ ocr_data_dict = None
    /\ save_exception = "none"
    /\ requests = [j \in 0..(Len(image_paths) - 1) |-> 0]
    /\ steps_done = [j \in 0..(Len(image_paths) - 1) |-> {}]
    /\ failed_at = [j \in 0..(Len(image_paths) - 1) |-> "none"]

NoOutcome == [raised |-> "not run"]

NoRun == [ended |-> FALSE]

StitchLocalsInit ==
    /\ json_files = <<>>
    /\ page_idx = 0
    /\ img_idx = 0
    /\ markdown_content = <<>>
    /\ image_file_counter = 0
    /\ stitched_md = [exists |-> FALSE, text |-> <<>>]
    /\ images_dir = {}
    /\ image_log = <<>>
    /\ pandoc_outcome = NoOutcome
    /\ first_run = NoRun

\* a worker thread started by on_run_ocr_button_clicked on the selected
\* images, with an empty json directory
BatchInit ==
    /\ target = "_perform_ocr_workflow_for_list"
    /\ image_paths \in OcrTargetLists
    /\ json_dir = [n \in JsonNames |-> NoFile]
    /\ other_entries = FALSE

\* a worker thread started by on_stitch_button_clicked on a json directory
\* that holds at most MaxRecords records
StitchInit ==
    /\ target = "_perform_stitch_and_pandoc_workflow"
    /\ image_paths = <<>>
    /\ json_dir \in [JsonNames -> StoredFiles \cup {NoFile}]
    /\ Cardinality({n \in JsonNames : json_dir[n] # NoFile}) <= MaxRecords
    /\ other_entries \in BOOLEAN

NoFolder == "None"

\* ImageFrame.__init__ with no folder opened; line 322 sets the buttons
FrameInit ==
    /\ mistral_client \in BOOLEAN
    /\ current_opened_folder_path = NoFolder
    /\ all_selected_item_paths = <<>>
    /\ run_ocr_button = FALSE
    /\ stitch_pdf_button = FALSE
    /\ delete_button = FALSE
    /\ threads = <<>>
    /\ pending = <<>>
    /\ taken = 0
    /\ delivered = <<>>

\* no update_progress call yet
NoProgress == [value |-> -1, before |-> -1, item |-> -1, site |-> -1]

\* the frame as the worker's thread leaves it: the specification of the
\* worker follows one thread and no handler of the frame
FrameAtRest == FrameInit /\ mistral_client = TRUE

Init ==
    /\ BatchInit \/ StitchInit
    /\ pc = "start"
    /\ i = 0
    /\ calls = <<>>
    /\ BatchLocalsInit
    /\ StitchLocalsInit
    /\ progress = NoProgress
    /\ FrameAtRest

\* lines 731-734
StartWorker ==
    /\ target = "_perform_ocr_workflow_for_list"
    /\ UNCHANGED <<frame_vars, progress, target, stitch_vars>>
    /\ pc = "start"
    /\ calls' = Append(calls, ProgressCall(0, -1, 0))
    /\ pc' = "item"
    /\ UNCHANGED <<image_paths, i, tmpdirs, temp_pdfs, ocr_response_obj,
                   ocr_data_dict, save_exception, json_dir, requests, steps_done,
                   failed_at>>

\* lines 736-748: the head of the loop body and the entry of the with block
BeginItem ==
    /\ target = "_perform_ocr_workflow_for_list"
    /\ UNCHANGED <<frame_vars, progress, target, stitch_vars>>
    /\ pc = "item"
    /\ tmpdirs' = tmpdirs \cup {i}
    /\ calls' = calls \o
         <<StatusCall("Processing file", <<i + 1, total_files, image_path>>, 0),
           ProgressCall(ProgressAt(1, i, total_files), i, 1)>>
    /\ pc' = "normalize"
    /\ UNCHANGED <<image_paths, i, temp_pdfs, ocr_response_obj, ocr_data_dict,
                   save_exception, json_dir, requests, steps_done, failed_at>>

Fail(step, failure_calls) ==
    /\ failed_at' = [failed_at EXCEPT ![i] = step]
    /\ calls' = calls \o failure_calls
    /\ tmpdirs' = ExitTemporaryDirectory(tmpdirs, i)
    /\ temp_pdfs' = ExitTemporaryDirectory(temp_pdfs, i)
    /\ pc' = Goto(AfterFailure(step))
    /\ i' = IF AfterFailure(step) = "continue" THEN i + 1 ELSE i

\* lines 750-766
Normalize ==
    /\ target = "_perform_ocr_workflow_for_list"
    /\ UNCHANGED <<frame_vars, progress, target, stitch_vars>>
    /\ pc = "normalize"
    /\ \E ok \in BOOLEAN :
        IF ok
        THEN /\ temp_pdfs' = temp_pdfs \cup {i}
             /\ steps_done' = [steps_done EXCEPT ![i] = @ \cup {"normalize"}]
             /\ calls' = calls \o _image_to_pdf(image_path, TRUE) \o
                  <<ProgressCall(ProgressAt(2, i, total_files), i, 2)>>
             /\ pc' = "encode"
             /\ UNCHANGED <<i, tmpdirs, failed_at>>
        ELSE /\ Fail("normalize",
                     _image_to_pdf(image_path, FALSE) \o
                     <<StatusCall("Failed PDF conversion", <<image_path>>, 0)>>)
             /\ UNCHANGED steps_done
    /\ UNCHANGED <<image_paths, ocr_response_obj, ocr_data_dict, save_exception,
                   json_dir, requests>>

\* lines 767-779
Encode ==
    /\ target = "_perform_ocr_workflow_for_list"
    /\ UNCHANGED <<frame_vars, progress, target, stitch_vars>>
    /\ pc = "encode"
    /\ \E ok \in BOOLEAN :
        IF ok
        THEN /\ steps_done' = [steps_done EXCEPT ![i] = @ \cup {"encode"}]
             /\ calls' = calls \o _encode_pdf_to_base64(image_path, TRUE) \o
                  <<ProgressCall(ProgressAt(3, i, total_files), i, 3)>>
             /\ pc' = "submit"
             /\ UNCHANGED <<i, tmpdirs, temp_pdfs, failed_at>>
        ELSE /\ Fail("encode",
                     _encode_pdf_to_base64(image_path, FALSE) \o
                     <<StatusCall("Failed PDF encoding", <<image_path>>, 0)>>)
             /\ UNCHANGED steps_done
    /\ UNCHANGED <<image_paths, ocr_response_obj, ocr_data_dict, save_exception,
                   json_dir, requests>>

\* lines 780-787 and the else branch, lines 826-829
Submit ==
    /\ target = "_perform_ocr_workflow_for_list"
    /\ UNCHANGED <<frame_vars, progress, target, stitch_vars>>
    /\ pc = "submit"
    /\ \E response \in Responses \cup {None} :
        /\ requests' = [requests EXCEPT ![i] = @ + OcrProcessCalls(response)]
        /\ ocr_response_obj' = response
        /\ IF response # None
           THEN /\ steps_done' = [steps_done EXCEPT ![i] = @ \cup {"submit"}]
                /\ calls' = calls \o _request_mistral_ocr(image_path, response)
                /\ pc' = "convert"
                /\ UNCHANGED <<i, tmpdirs, temp_pdfs, failed_at>>
           ELSE /\ Fail("submit",
                        _request_mistral_ocr(image_path, None) \o
                        <<StatusCall("Failed OCR request", <<image_path>>, 0)>>)
                /\ UNCHANGED steps_done
    /\ UNCHANGED <<image_paths, ocr_data_dict, save_exception, json_dir>>

\* lines 788-803: model_dump(), or dict(), or the object itself; an
\* exception of the method gives the error marker
ConvertResponse(response) ==
    IF response.shape \in {"model_dump", "dict"}
    THEN IF response.convertible THEN [data |-> OcrDict, serialisable |-> TRUE]
         ELSE [data |-> ErrorMarker, serialisable |-> TRUE]
    ELSE [data |-> OcrDict, serialisable |-> response.convertible]

ConvertRaises(response) ==
    response.shape \in {"model_dump", "dict"} /\ ~response.convertible

Convert ==
    /\ target = "_perform_ocr_workflow_for_list"
    /\ UNCHANGED <<frame_vars, progress, target, stitch_vars>>
    /\ pc = "convert"
    /\ ocr_data_dict' = ConvertResponse(ocr_response_obj)
    /\ calls' = IF ConvertRaises(ocr_response_obj)
                THEN Append(calls, LogErrorCall("Could not convert OCR response to dict",
                                                 <<"str(e)">>))
                ELSE calls
    /\ pc' = "persist"
    /\ UNCHANGED <<image_paths, i, tmpdirs, temp_pdfs, ocr_response_obj,
                   save_exception, json_dir, requests, steps_done, failed_at>>

\* open(json_file_path, "w") creates or truncates the file before
\* json.dump writes: a dump that raises leaves what it wrote so far
WrittenFile(data, dumped, by) ==
    IF dumped THEN [kind |-> "record", data |-> data, by |-> by]
    ELSE [kind |-> "truncated", by |-> by]

\* the exception of lines 808-810, if any: of open(), or of json.dump() on
\* an object that is not JSON-serialisable, or of the write itself
SaveException(opened, written, serialisable) ==
    IF ~opened THEN "OSError (open)"
    ELSE IF written THEN "none"
    ELSE IF ~serialisable THEN "TypeError (json.dump)"
    ELSE "OSError (write)"

\* lines 805-825
Persist ==
    /\ target = "_perform_ocr_workflow_for_list"
    /\ UNCHANGED <<frame_vars, progress, target, stitch_vars>>
    /\ pc = "persist"
    /\ \E opened \in BOOLEAN, written \in BOOLEAN :
        /\ written => opened /\ ocr_data_dict.serialisable
        /\ save_exception' = SaveException(opened, written, ocr_data_dict.serialisable)
        /\ json_dir' = IF opened
                       THEN [json_dir EXCEPT ![JsonName(image_path)] =
                               WrittenFile(ocr_data_dict.data, written, image_path)]
                       ELSE json_dir
        /\ IF written
           THEN /\ steps_done' = [steps_done EXCEPT ![i] = @ \cup {"persist"}]
                /\ calls' = Append(calls, StatusCall("OCR data saved", <<image_path>>, 1))
                /\ tmpdirs' = ExitTemporaryDirectory(tmpdirs, i)
                /\ temp_pdfs' = ExitTemporaryDirectory(temp_pdfs, i)
                /\ pc' = "end_share"
                /\ UNCHANGED <<i, failed_at>>
           ELSE /\ Fail("persist",
                        <<LogErrorCall("Failed to save OCR JSON", <<image_path, "str(e)">>),
                          StatusCall("Failed save JSON", <<image_path>>, 0)>>)
                /\ UNCHANGED steps_done
    /\ UNCHANGED <<image_paths, ocr_response_obj, ocr_data_dict, requests>>

\* lines 830-832
EndShare ==
    /\ target = "_perform_ocr_workflow_for_list"
    /\ UNCHANGED <<frame_vars, progress, target, stitch_vars>>
    /\ pc = "end_share"
    /\ calls' = Append(calls, ProgressCall(ProgressAt(4, i, total_files), i, 4))
    /\ i' = i + 1
    /\ pc' = NextIteration(i)
    /\ UNCHANGED <<image_paths, tmpdirs, temp_pdfs, ocr_response_obj, ocr_data_dict,
                   save_exception, json_dir, requests, steps_done, failed_at>>

\* lines 834-844
CompletionStatusOnlyWithoutFailures ==
    IF \A j \in DOMAIN failed_at : failed_at[j] = "none"
    THEN StatusCall("OCR processing complete for selected files.", <<>>, 0)
    ELSE StatusCall("OCR processing finished with failures.", <<>>, 0)

\* lines 834-836
CompletionStatus ==
    StatusCall("OCR processing complete for selected files.", <<>>, 0)

\* lines 834-844
Complete ==
    /\ target = "_perform_ocr_workflow_for_list"
    /\ UNCHANGED <<frame_vars, progress, target, stitch_vars>>
    /\ pc = "complete"
    /\ \E same_folder \in BOOLEAN :
       calls' = calls \o
         <<CompletionStatus, ProgressCall(100, -1, 5)>> \o
         (IF same_folder THEN <<RefreshCall>> ELSE <<>>) \o EnableButtons
    /\ pc' = "done"
    /\ UNCHANGED <<image_paths, i, tmpdirs, temp_pdfs, ocr_response_obj,
                   ocr_data_dict, save_exception, json_dir, requests, steps_done,
                   failed_at>>

(***************************************************************************)
(* The stitch worker: _perform_stitch_and_pandoc_workflow, which calls      *)
(* _stitch_ocr_data.                                                        *)
(***************************************************************************)
Stitching == target = "_perform_stitch_and_pandoc_workflow"

Range(seq) == { seq[k] : k \in 1..Len(seq) }

\* the record names in the order sorted() gives them
NameOrder == <<"a", "b">>

\* sorted([f for f in json_dir.glob("*.json") if f.is_file()])
SortedJsonFiles == SelectSeq(NameOrder, LAMBDA n : json_dir[n] # NoFile)

\* the index of the first x in seq (x is in seq)
IndexOf(seq, x) == CHOOSE k \in 1..Len(seq) :
                       seq[k] = x /\ \A j \in 1..(k - 1) : seq[j] # x

\* the index of the last x in seq, 0 when there is none
LastIndexOf(seq, x) ==
    IF x \in Range(seq)
    THEN CHOOSE k \in 1..Len(seq) : seq[k] = x /\ \A j \in (k + 1)..Len(seq) : seq[j] # x
    ELSE 0

StartsWith(seq, prefix) ==
    Len(seq) >= Len(prefix) /\ SubSeq(seq, 1, Len(prefix)) = prefix

\* str.isalnum()
IsAlnum(tokens) == tokens # <<>> /\ \A k \in 1..Len(tokens) : tokens[k] \notin Punctuation

\* lines 160-170: the extension and the encoded data of a payload
SplitPayload(base64_data_uri) ==
    IF "," \in Range(base64_data_uri)
    THEN LET at     == IndexOf(base64_data_uri, ",")
             header == SubSeq(base64_data_uri, 1, at - 1)
             first  == IF ";" \in Range(header)
                       THEN SubSeq(header, 1, IndexOf(header, ";") - 1)
                       ELSE header
             potential_type == SubSeq(first, LastIndexOf(first, "/") + 1, Len(first))
         IN  [image_type |->
                 IF StartsWith(header, <<"data", ":", "image", "/">>)
                    /\ IsAlnum(potential_type)
                 THEN potential_type ELSE <<"jpeg">>,
              actual_encoded_data |->
                 SubSeq(base64_data_uri, at + 1, Len(base64_data_uri))]
    ELSE [image_type |-> <<"jpeg">>, actual_encoded_data |-> base64_data_uri]

\* base64.b64decode raises on a payload it does not accept
Decodable(encoded) ==
    encoded = <<>> \/ (Len(encoded) = 1 /\ encoded[1] \in DOMAIN DecodedBytes)

b64decode(encoded) == IF encoded = <<>> THEN "" ELSE DecodedBytes[encoded[1]]

\* f"image_{image_file_counter:010d}.{image_type}"
ImageFilename(counter, image_type) == [counter |-> counter, image_type |-> image_type]

\* os.path.relpath(images_dir / name, markdown_dir), as_posix()
RelativeImagePath(filename) == <<"..", "images", filename>>

\* str.replace(old, new) on the references of the markdown
Replace(markdown, old, new) ==
    [k \in 1..Len(markdown) |-> IF markdown[k] = old THEN new ELSE markdown[k]]

\* replacing the first form of the placeholder only
ReplaceEmptyAltOnly(markdown, original_image_id, relative_image_path) ==
    Replace(markdown, Ref("", original_image_id), Link("", relative_image_path))

\* lines 185-192: both forms of the placeholder become a link to the file
ReplacePlaceholders(markdown, original_image_id, relative_image_path) ==
    Replace(Replace(markdown, Ref("", original_image_id),
                    Link("", relative_image_path)),
            Ref(original_image_id, original_image_id),
            Link("", relative_image_path))

\* open(path, "wb") and write(): the file replaces one of the same name
WriteImage(dir, filename, bytes, complete) ==
    { f \in dir : f.name # filename }
        \cup {[name |-> filename, bytes |-> bytes, complete |-> complete]}

json_file_path == json_files[i + 1]

\* ocr_data_obj.get("pages", [])
Pages == LET ocr_data_obj == json_dir[json_file_path].data
         IN  IF "pages" \in DOMAIN ocr_data_obj THEN ocr_data_obj.pages ELSE <<>>

page_data == Pages[page_idx + 1]

\* page_data.get("images", [])
Images == IF "images" \in DOMAIN page_data THEN page_data.images ELSE <<>>

image_info == Images[img_idx + 1]

\* the end of the loop over json_files, or its next iteration
NextRecord == IF i + 1 < Len(json_files) THEN "record" ELSE "stitched"

\* the end of the loop over the pages, or its next iteration
NextPage(p) == IF p + 1 < Len(Pages) THEN "page" ELSE NextRecord

\* lines 864-874
StartStitch ==
    /\ Stitching
    /\ pc = "start"
    /\ calls' = calls \o <<ProgressCall(5, -1, 0),
                           StatusCall("Collecting JSON files...", <<>>, 0)>>
    /\ pc' = "collect"
    /\ UNCHANGED <<frame_vars, progress, target, i, json_dir, batch_vars, stitch_vars>>

\* lines 875-892
CollectJsonFiles ==
    /\ Stitching
    /\ pc = "collect"
    /\ IF SortedJsonFiles = <<>>
       THEN /\ calls' = calls \o
                 <<MessageBoxCall(IF other_entries
                                  THEN "No .json files found in 'json' directory."
                                  ELSE "No JSON files in 'json' directory.", <<>>),
                   ProgressCall(0, -1, 0)>> \o EnableButtons
            /\ pc' = "done"
            /\ UNCHANGED json_files
       ELSE /\ json_files' = SortedJsonFiles
            /\ calls' = Append(calls, ProgressCall(20, -1, 0))
            /\ pc' = "open"
    /\ UNCHANGED <<frame_vars, progress, target, i, json_dir, batch_vars, pandoc_outcome, first_run, image_log,
                   other_entries, page_idx, img_idx,
                   markdown_content, image_file_counter, stitched_md, images_dir>>

\* a counter that outlives the call, such as a module-level one
CounterOfLastRun == image_file_counter

\* line 134
InitialCounter == 0

\* lines 132-135: open(stitched_md_path, "w") truncates the document, or
\* raises; nothing catches what it raises and the thread ends there
OpenStitchedFile ==
    /\ Stitching
    /\ pc = "open"
    /\ image_file_counter' = InitialCounter
    /\ i' = 0
    /\ \E opened \in BOOLEAN :
        IF opened
        THEN /\ stitched_md' = [exists |-> TRUE, text |-> <<>>]
             /\ pc' = "record"
        ELSE /\ UNCHANGED stitched_md
             /\ pc' = "uncaught exception"
    /\ UNCHANGED <<frame_vars, progress, target, calls, json_dir, batch_vars, pandoc_outcome, first_run, image_log,
                   other_entries, json_files,
                   page_idx, img_idx, markdown_content, images_dir>>

\* a test that takes every JSON value for a dict
IsDictUnchecked(ocr_data_obj) == TRUE

\* line 145: isinstance(ocr_data_obj, dict)
IsDict(ocr_data_obj) == ocr_data_obj.type = "object"

\* lines 136-150: the head of the loop over json_files
BeginRecord ==
    /\ Stitching
    /\ pc = "record"
    /\ LET file   == json_dir[json_file_path]
           status == StatusCall("Stitching", <<json_file_path, i + 1, Len(json_files)>>, 0)
       IN  IF file.kind # "record"
           THEN /\ calls' = calls \o
                     <<status, LogErrorCall("Stitching error", <<json_file_path, "str(e)">>)>>
                /\ pc' = NextRecord
                /\ i' = i + 1
           ELSE IF ~IsDict(file.data)
           THEN /\ calls' = calls \o
                     <<status, LogWarningCall("Skipping non-dict JSON", <<json_file_path>>)>>
                /\ pc' = NextRecord
                /\ i' = i + 1
           ELSE /\ calls' = Append(calls, status)
                /\ pc' = IF Pages = <<>> THEN NextRecord ELSE "page"
                /\ i' = IF Pages = <<>> THEN i + 1 ELSE i
    /\ page_idx' = 0
    /\ UNCHANGED <<frame_vars, progress, target, json_dir, batch_vars, pandoc_outcome, first_run, image_log,
                   other_entries, json_files, img_idx,
                   markdown_content, image_file_counter, stitched_md, images_dir>>

\* a test that skips no page
SkipNoPage(markdown) == FALSE

\* line 152: not markdown_content (None and "" alike)
SkipPage(markdown) == markdown = <<>>

\* lines 150-154: the head of the loop over the pages
BeginPage ==
    /\ Stitching
    /\ pc = "page"
    /\ LET markdown == IF "markdown" \in DOMAIN page_data
                       THEN page_data.markdown ELSE <<>>
       IN  IF SkipPage(markdown)
           THEN /\ pc' = NextPage(page_idx)
                /\ page_idx' = IF NextPage(page_idx) = "page" THEN page_idx + 1 ELSE 0
                /\ i' = IF NextPage(page_idx) = "page" THEN i ELSE i + 1
                /\ UNCHANGED markdown_content
           ELSE /\ markdown_content' = markdown
                /\ pc' = IF Images = <<>> THEN "write_page" ELSE "image"
                /\ UNCHANGED <<i, page_idx>>
    /\ img_idx' = 0
    /\ UNCHANGED <<frame_vars, progress, target, calls, json_dir, batch_vars, pandoc_outcome, first_run, image_log,
                   other_entries, json_files,
                   image_file_counter, stitched_md, images_dir>>

\* the end of the loop over the images, or its next iteration
NextImage == IF img_idx + 1 < Len(Images) THEN "image" ELSE "write_page"

\* what can become of an entry of the images list: lines 157-158, the
\* exception of b64decode (171), of open (178), of write (179), or none
ImageOutcomes(info) ==
    IF info.id = "" \/ info.image_base64 = <<>>
    THEN {"skipped"}
    ELSE IF ~Decodable(SplitPayload(info.image_base64).actual_encoded_data)
    THEN {"decode error"}
    ELSE {"open error", "write error", "written"}

\* a counter that advances before the file is written
CounterAdvancedFirst(counter, outcome) ==
    IF outcome = "skipped" THEN counter ELSE counter + 1

\* line 193: the counter advances at the end of the try body
CounterAfter(counter, outcome) ==
    IF outcome = "written" THEN counter + 1 ELSE counter

\* lines 185-192, reached when the file is written
MarkdownAfter(markdown, outcome, original_image_id, filename) ==
    IF outcome = "written"
    THEN ReplacePlaceholders(markdown, original_image_id, RelativeImagePath(filename))
    ELSE markdown

\* lines 178-179: open(path, "wb") creates or truncates the file
ImagesDirAfter(dir, outcome, filename, bytes) ==
    IF outcome \in {"write error", "written"}
    THEN WriteImage(dir, filename, bytes, outcome = "written")
    ELSE dir

\* a second run over the same records meets the failures of open and write
\* the first one met: the two runs differ in nothing but the time they run
\* at; a second run over other records meets no such failure
SameEnvironment(outcome) ==
    first_run.ended =>
        IF first_run.records = json_dir
        THEN outcome = first_run.outcomes[Len(image_log) + 1]
        ELSE outcome \notin {"open error", "write error"}

\* the entry of the images list a step is about
ImageSource == [record |-> json_file_path, page |-> page_idx, img |-> img_idx]

\* lines 154-198: one iteration of the loop over the images
StitchImage ==
    /\ Stitching
    /\ pc = "image"
    /\ IF image_info.type # "object"
       THEN \* image_info.get raises outside the inner try: the record is given up
            /\ calls' = Append(calls, LogErrorCall("Stitching error",
                                                   <<json_file_path, "str(e)">>))
            /\ pc' = NextRecord
            /\ i' = i + 1
            /\ image_log' = Append(image_log,
                                   [source |-> ImageSource, outcome |-> "not an object"])
            /\ UNCHANGED <<img_idx, markdown_content, image_file_counter, images_dir>>
       ELSE
       LET original_image_id == image_info.id
           base64_data_uri   == image_info.image_base64
           split             == SplitPayload(base64_data_uri)
           filename          == ImageFilename(image_file_counter, split.image_type)
           error             == LogErrorCall("Img proc. error",
                                             <<original_image_id, json_file_path, "str(e)">>)
       IN  /\ pc' = NextImage
           /\ img_idx' = img_idx + 1
           /\ UNCHANGED i
           /\ \E outcome \in ImageOutcomes(image_info) :
               /\ SameEnvironment(outcome)
               /\ images_dir' =
                    ImagesDirAfter(images_dir, outcome, filename,
                                   IF outcome \in {"write error", "written"}
                                   THEN b64decode(split.actual_encoded_data) ELSE "")
               /\ markdown_content' =
                    MarkdownAfter(markdown_content, outcome, original_image_id, filename)
               /\ image_file_counter' = CounterAfter(image_file_counter, outcome)
               /\ calls' = IF outcome \in {"decode error", "open error", "write error"}
                           THEN Append(calls, error) ELSE calls
               /\ image_log' = Append(image_log,
                    [source |-> ImageSource, outcome |-> outcome,
                     id |-> original_image_id, filename |-> filename])
    /\ UNCHANGED <<frame_vars, progress, target, json_dir, batch_vars, pandoc_outcome,
                   first_run, other_entries, json_files, page_idx, stitched_md>>

\* line 199
WritePage ==
    /\ Stitching
    /\ pc = "write_page"
    /\ stitched_md' = [stitched_md EXCEPT !.text = @ \o markdown_content \o <<Text("\n\n")>>]
    /\ pc' = NextPage(page_idx)
    /\ page_idx' = IF NextPage(page_idx) = "page" THEN page_idx + 1 ELSE 0
    /\ i' = IF NextPage(page_idx) = "page" THEN i ELSE i + 1
    /\ UNCHANGED <<frame_vars, progress, target, calls, json_dir, batch_vars, pandoc_outcome, first_run, image_log,
                   other_entries, json_files,
                   img_idx, markdown_content, image_file_counter, images_dir>>

\* exit codes of pandoc
ReturnCodes == {0, 1, 43, -9}

\* what subprocess.run returns or raises
PandocOutcomes ==
    { [raised |-> "nothing", returncode |-> rc] : rc \in ReturnCodes }
        \cup {[raised |-> "FileNotFoundError"], [raised |-> "Exception"]}

\* a test that takes the exit code 1 of pandoc (a warning-level failure)
\* for a success too
PandocSucceededLenient(outcome) ==
    outcome.raised = "nothing" /\ outcome.returncode \in {0, 1}

\* line 909: result.returncode == 0
PandocSucceeded(outcome) == outcome.raised = "nothing" /\ outcome.returncode = 0

\* lines 909-941: what the outcome of subprocess.run makes the worker report
PandocCalls(outcome, same_folder) ==
    IF PandocSucceeded(outcome)
    THEN <<StatusCall("Final PDF", <<"final_document.pdf">>, 0),
           ProgressCall(100, -1, 0),
           MessageBoxCall("Successfully created PDF", <<"final_document.pdf">>)>>
         \o (IF same_folder THEN <<RefreshCall>> ELSE <<>>)
    ELSE IF outcome.raised = "nothing"
    THEN <<LogErrorCall("Pandoc error", <<outcome.returncode, "stderr">>),
           MessageBoxCall("Pandoc failed. Check logs.", <<"stderr[:200]">>),
           StatusCall("Pandoc failed.", <<>>, 0),
           ProgressCall(0, -1, 0)>>
    ELSE IF outcome.raised = "FileNotFoundError"
    THEN <<LogErrorCall("Pandoc not found.", <<>>),
           MessageBoxCall("Pandoc not found.", <<>>),
           StatusCall("Pandoc not found.", <<>>, 0),
           ProgressCall(0, -1, 0)>>
    ELSE <<LogErrorCall("Error running Pandoc", <<"str(e)">>),
           StatusCall("Pandoc error.", <<>>, 0),
           ProgressCall(0, -1, 0)>>

\* lines 204-205 and 894-944
RunPandoc ==
    /\ Stitching
    /\ pc = "stitched"
    /\ \E outcome \in PandocOutcomes, same_folder \in BOOLEAN :
        /\ pandoc_outcome' = outcome
        /\ calls' = calls \o
            <<StatusCall("Stitched markdown", <<"stitched_document.md">>, 0),
              ProgressCall(70, -1, 0),
              StatusCall("Stitching complete. Converting to PDF...", <<>>, 0)>>
            \o PandocCalls(outcome, same_folder) \o EnableButtons
    /\ pc' = "done"
    /\ UNCHANGED <<frame_vars, progress, target, i, json_dir, batch_vars, first_run,
                   image_log, other_entries, json_files, page_idx, img_idx,
                   markdown_content, image_file_counter, stitched_md, images_dir>>

\* what a run left: the document, the images directory, and what became of
\* each image on the way
RunResult ==
    [ended |-> TRUE, records |-> json_dir, text |-> stitched_md.text,
     images |-> images_dir,
     outcomes |-> [k \in 1..Len(image_log) |-> image_log[k].outcome]]

\* on_stitch_button_clicked once more, after the run has ended: a second
\* worker thread on the same folder; what the first wrote is still there
StitchAgain ==
    /\ Stitching
    /\ pc = "done"
    /\ json_files # <<>>
    /\ ~first_run.ended
    /\ first_run' = RunResult
    /\ pc' = "start"
    /\ i' = 0
    /\ calls' = <<>>
    /\ json_files' = <<>>
    /\ page_idx' = 0
    /\ img_idx' = 0
    /\ markdown_content' = <<>>
    /\ image_log' = <<>>
    /\ pandoc_outcome' = NoOutcome
    /\ UNCHANGED <<frame_vars, progress, target, json_dir, batch_vars, other_entries,
                   image_file_counter, stitched_md, images_dir>>

\* on_run_ocr_button_clicked once more on the same selection, after the run
\* has ended: a second worker thread; the records of the first are there,
\* marked as written by the earlier run
BatchAgain ==
    /\ Batching
    /\ pc = "done"
    /\ ~first_run.ended
    /\ json_dir' = [n \in JsonNames |->
                       IF json_dir[n] = NoFile THEN NoFile
                       ELSE [json_dir[n] EXCEPT !.by = [stem |-> @.stem, suffix |-> @.suffix,
                                                        run |-> "earlier"]]]
    /\ first_run' = [ended |-> TRUE, records |-> json_dir']
    /\ pc' = "start"
    /\ i' = 0
    /\ calls' = <<>>
    /\ tmpdirs' = {}
    /\ temp_pdfs' = {}
    /\ ocr_response_obj' = None
    /\ ocr_data_dict' = None
    /\ save_exception' = "none"
    /\ requests' = [j \in 0..(Len(image_paths) - 1) |-> 0]
    /\ steps_done' = [j \in 0..(Len(image_paths) - 1) |-> {}]
    /\ failed_at' = [j \in 0..(Len(image_paths) - 1) |-> "none"]
    /\ UNCHANGED <<frame_vars, progress, target, image_paths, other_entries,
                   json_files, page_idx, img_idx, markdown_content, image_file_counter,
                   stitched_md, images_dir, image_log, pandoc_outcome>>

\* on_stitch_button_clicked once more, after a record was deleted from the
\* json directory (on_delete_button_clicked on the record's file)
StitchAfterDelete ==
    /\ Stitching
    /\ pc = "done"
    /\ json_files # <<>>
    /\ ~first_run.ended
    /\ \E n \in JsonNames :
        /\ json_dir[n] # NoFile
        /\ json_dir' = [json_dir EXCEPT ![n] = NoFile]
    /\ first_run' = RunResult
    /\ pc' = "start"
    /\ i' = 0
    /\ calls' = <<>>
    /\ json_files' = <<>>
    /\ page_idx' = 0
    /\ img_idx' = 0
    /\ markdown_content' = <<>>
    /\ image_log' = <<>>
    /\ pandoc_outcome' = NoOutcome
    /\ UNCHANGED <<frame_vars, progress, target, batch_vars, other_entries,
                   image_file_counter, stitched_md, images_dir>>

Next ==
    \/ StartWorker
    \/ BeginItem
    \/ Normalize
    \/ Encode
    \/ Submit
    \/ Convert
    \/ Persist
    \/ EndShare
    \/ Complete
    \/ StartStitch
    \/ CollectJsonFiles
    \/ OpenStitchedFile
    \/ BeginRecord
    \/ BeginPage
    \/ StitchImage
    \/ WritePage
    \/ RunPandoc
    \/ StitchAgain
    \/ StitchAfterDelete
    \/ BatchAgain

Spec == Init /\ [][Next]_vars

(***************************************************************************)
(* The progress values of a batch run over up to MaxFiles files: the loop  *)
(* of _perform_ocr_workflow_for_list followed through its update_progress  *)
(* calls only, each sub-step succeeding or failing.                        *)
(***************************************************************************)
MaxFiles == 50

\* a selection of n image files
NumberedScans(n) == [k \in 1..n |-> [stem |-> k, suffix |-> ".png"]]

ProgressInit ==
    /\ target = "_perform_ocr_workflow_for_list"
    /\ image_paths \in { NumberedScans(n) : n \in 1..MaxFiles }
    /\ json_dir = [n \in JsonNames |-> NoFile]
    /\ other_entries = FALSE
    /\ pc = "start"
    /\ i = 0
    /\ calls = <<>>
    /\ BatchLocalsInit
    /\ StitchLocalsInit
    /\ progress = NoProgress
    /\ FrameAtRest

\* wx.CallAfter(self.update_progress, value)
IssueProgress(value, item, site) ==
    progress' = [value |-> value, before |-> progress.value,
                 item |-> item, site |-> site]

ProgressUnchanged ==
    UNCHANGED <<frame_vars, target, calls, json_dir, batch_vars, stitch_vars>>

\* line 734
ProgressAtStart ==
    /\ Batching
    /\ pc = "start"
    /\ IssueProgress(0, -1, 0)
    /\ pc' = "item"
    /\ UNCHANGED i
    /\ ProgressUnchanged

\* lines 736-748
ProgressFirstQuarter ==
    /\ Batching
    /\ pc = "item"
    /\ IssueProgress(ProgressAt(1, i, total_files), i, 1)
    /\ pc' = "normalize"
    /\ UNCHANGED i
    /\ ProgressUnchanged

\* lines 750-766
ProgressAfterNormalize ==
    /\ Batching
    /\ pc = "normalize"
    /\ \E ok \in BOOLEAN :
        IF ok
        THEN /\ IssueProgress(ProgressAt(2, i, total_files), i, 2)
             /\ pc' = "encode"
             /\ UNCHANGED i
        ELSE /\ pc' = Goto(AfterFailure("normalize"))
             /\ i' = IF AfterFailure("normalize") = "continue" THEN i + 1 ELSE i
             /\ UNCHANGED progress
    /\ ProgressUnchanged

\* lines 767-779
ProgressAfterEncode ==
    /\ Batching
    /\ pc = "encode"
    /\ \E ok \in BOOLEAN :
        IF ok
        THEN /\ IssueProgress(ProgressAt(3, i, total_files), i, 3)
             /\ pc' = "submit"
             /\ UNCHANGED i
        ELSE /\ pc' = Goto(AfterFailure("encode"))
             /\ i' = IF AfterFailure("encode") = "continue" THEN i + 1 ELSE i
             /\ UNCHANGED progress
    /\ ProgressUnchanged

\* lines 780-829: submit, convert and persist issue no progress value
ProgressSubmitAndPersist ==
    /\ Batching
    /\ pc = "submit"
    /\ pc' = "end_share"
    /\ UNCHANGED <<i, progress>>
    /\ ProgressUnchanged

\* lines 830-832
ProgressEndShare ==
    /\ Batching
    /\ pc = "end_share"
    /\ IssueProgress(ProgressAt(4, i, total_files), i, 4)
    /\ i' = i + 1
    /\ pc' = NextIteration(i)
    /\ ProgressUnchanged

\* line 837
ProgressComplete ==
    /\ Batching
    /\ pc = "complete"
    /\ IssueProgress(100, -1, 5)
    /\ pc' = "done"
    /\ UNCHANGED i
    /\ ProgressUnchanged

ProgressNext ==
    \/ ProgressAtStart
    \/ ProgressFirstQuarter
    \/ ProgressAfterNormalize
    \/ ProgressAfterEncode
    \/ ProgressSubmitAndPersist
    \/ ProgressEndShare
    \/ ProgressComplete

SpecProgress == ProgressInit /\ [][ProgressNext]_vars

(***************************************************************************)
(* The frame: the handlers of ImageFrame that set the buttons and start    *)
(* the worker threads, the queue of wx.CallAfter, and the worker threads   *)
(* from their start to their return.                                       *)
(***************************************************************************)
MaxThreads == 2

MaxPending == 4

Folders == {"scans"}

\* the entries of the tree of an opened folder
TreeEntries == {[stem |-> "a", suffix |-> ".png"], [stem |-> "notes", suffix |-> ".txt"]}

Selections == SeqsNoDup(TreeEntries, Cardinality(TreeEntries))

\* lines 227-234
supported_ocr_input_formats == {".png", ".jpg", ".jpeg", ".bmp", ".gif", ".jp2"}

\* lines 701-705 and 956-960
ocr_target_paths(selection) ==
    SelectSeq(selection, LAMBDA p : p.suffix \in supported_ocr_input_formats)

\* button states that follow the selection and the folder, not the client
update_button_statesWithoutClient(selection, folder) ==
    /\ run_ocr_button' = (ocr_target_paths(selection) # <<>>)
    /\ stitch_pdf_button' = (folder # NoFolder)
    /\ delete_button' = (selection # <<>> /\ folder # NoFolder)

\* lines 951-969
update_button_states(selection, folder) ==
    /\ run_ocr_button' = (mistral_client /\ ocr_target_paths(selection) # <<>>)
    /\ stitch_pdf_button' = (mistral_client /\ folder # NoFolder)
    /\ delete_button' = (selection # <<>> /\ folder # NoFolder)

\* lines 352-380
populate_tree_and_watch(root_path, is_dir) ==
    /\ all_selected_item_paths' = <<>>
    /\ current_opened_folder_path' = IF is_dir THEN root_path ELSE NoFolder
    /\ update_button_states(<<>>, IF is_dir THEN root_path ELSE NoFolder)

\* lines 428-442
handle_root_folder_disappeared ==
    /\ current_opened_folder_path' = NoFolder
    /\ all_selected_item_paths' = <<>>
    /\ update_button_states(<<>>, NoFolder)

\* lines 421-426
refresh_tree_due_to_fs_event(exists) ==
    IF current_opened_folder_path # NoFolder /\ exists
    THEN populate_tree_and_watch(current_opened_folder_path, TRUE)
    ELSE handle_root_folder_disappeared

FrameWorkerUnchanged == UNCHANGED <<worker_vars, progress, mistral_client, loop_vars>>

\* lines 332-344
on_open_folder_selected ==
    /\ \E new_folder_path \in Folders, is_dir \in BOOLEAN :
        /\ current_opened_folder_path # new_folder_path
        /\ populate_tree_and_watch(new_folder_path, is_dir)
    /\ UNCHANGED <<threads, pending>>
    /\ FrameWorkerUnchanged

\* lines 451-523
on_tree_selection_changed ==
    /\ current_opened_folder_path # NoFolder
    /\ \E selection \in Selections :
        /\ all_selected_item_paths' = selection
        /\ update_button_states(selection, current_opened_folder_path)
    /\ UNCHANGED <<current_opened_folder_path, threads, pending>>
    /\ FrameWorkerUnchanged

\* lines 412-419
on_fs_event ==
    /\ current_opened_folder_path # NoFolder
    /\ Len(pending) < MaxPending
    /\ \E exists \in BOOLEAN :
        pending' = Append(pending, IF exists THEN "refresh_tree_due_to_fs_event"
                                   ELSE "handle_root_folder_disappeared")
    /\ UNCHANGED <<current_opened_folder_path, all_selected_item_paths,
                   run_ocr_button, stitch_pdf_button, delete_button, threads>>
    /\ FrameWorkerUnchanged

\* lines 645-696: a click on the enabled button
on_delete_button_clicked ==
    /\ delete_button
    /\ \E yes \in BOOLEAN :
        all_selected_item_paths' =
            IF all_selected_item_paths # <<>> /\ yes THEN <<>>
            ELSE all_selected_item_paths
    /\ UNCHANGED <<current_opened_folder_path, run_ocr_button, stitch_pdf_button,
                   delete_button, threads, pending>>
    /\ FrameWorkerUnchanged

\* threading.Thread(target=..., args=...).start(), with the buttons disabled
StartThread(thread_target, base_folder) ==
    /\ run_ocr_button' = FALSE
    /\ stitch_pdf_button' = FALSE
    /\ delete_button' = FALSE
    /\ threads' = Append(threads, [target |-> thread_target, base_folder |-> base_folder])

\* lines 698-726: a click on the enabled button
on_run_ocr_button_clicked ==
    /\ run_ocr_button
    /\ Len(threads) < MaxThreads
    /\ IF \/ ~mistral_client
          \/ ocr_target_paths(all_selected_item_paths) = <<>>
          \/ current_opened_folder_path = NoFolder
       THEN UNCHANGED <<run_ocr_button, stitch_pdf_button, delete_button, threads>>
       ELSE StartThread("_perform_ocr_workflow_for_list", current_opened_folder_path)
    /\ UNCHANGED <<current_opened_folder_path, all_selected_item_paths, pending>>
    /\ FrameWorkerUnchanged

\* lines 846-860: a click on the enabled button
on_stitch_button_clicked ==
    /\ stitch_pdf_button
    /\ Len(threads) < MaxThreads
    /\ IF ~mistral_client \/ current_opened_folder_path = NoFolder
       THEN UNCHANGED <<run_ocr_button, stitch_pdf_button, delete_button, threads>>
       ELSE StartThread("_perform_stitch_and_pandoc_workflow", current_opened_folder_path)
    /\ UNCHANGED <<current_opened_folder_path, all_selected_item_paths, pending>>
    /\ FrameWorkerUnchanged

\* lines 838-844 and 916-944: what a worker queues last, then it returns
\* (a stitch worker asks for a refresh only when pandoc returned 0)
WorkerReturns ==
    /\ \E k \in 1..Len(threads), pandoc_ok \in BOOLEAN :
        LET thread  == threads[k]
            refresh == /\ current_opened_folder_path = thread.base_folder
                       /\ (thread.target = "_perform_stitch_and_pandoc_workflow"
                              => pandoc_ok)
            queued  == (IF refresh THEN <<"refresh_tree_due_to_fs_event">> ELSE <<>>)
                       \o <<"run_ocr_button.Enable", "stitch_pdf_button.Enable",
                            "delete_button.Enable">>
        IN  /\ Len(pending) + Len(queued) <= MaxPending
            /\ pending' = pending \o queued
            /\ threads' = SubSeq(threads, 1, k - 1) \o SubSeq(threads, k + 1, Len(threads))
    /\ UNCHANGED <<current_opened_folder_path, all_selected_item_paths,
                   run_ocr_button, stitch_pdf_button, delete_button>>
    /\ FrameWorkerUnchanged

\* the main loop runs the oldest callable wx.CallAfter queued
RunPending ==
    /\ pending # <<>>
    /\ pending' = Tail(pending)
    /\ LET callable == Head(pending) IN
       IF callable = "refresh_tree_due_to_fs_event"
       THEN \E exists \in BOOLEAN : refresh_tree_due_to_fs_event(exists)
       ELSE IF callable = "handle_root_folder_disappeared"
       THEN handle_root_folder_disappeared
       ELSE /\ run_ocr_button' = (callable = "run_ocr_button.Enable" \/ run_ocr_button)
            /\ stitch_pdf_button' =
                 (callable = "stitch_pdf_button.Enable" \/ stitch_pdf_button)
            /\ delete_button' = (callable = "delete_button.Enable" \/ delete_button)
            /\ UNCHANGED <<current_opened_folder_path, all_selected_item_paths>>
    /\ UNCHANGED threads
    /\ FrameWorkerUnchanged

\* the frame, before any thread was started
FrameSpecInit ==
    /\ FrameInit
    /\ target = "none"
    /\ image_paths = <<>>
    /\ json_dir = [n \in JsonNames |-> NoFile]
    /\ other_entries = FALSE
    /\ pc = "start"
    /\ i = 0
    /\ calls = <<>>
    /\ BatchLocalsInit
    /\ StitchLocalsInit
    /\ progress = NoProgress

FrameNext ==
    \/ on_open_folder_selected
    \/ on_tree_selection_changed
    \/ on_fs_event
    \/ on_delete_button_clicked
    \/ on_run_ocr_button_clicked
    \/ on_stitch_button_clicked
    \/ WorkerReturns
    \/ RunPending

SpecUI == FrameSpecInit /\ [][FrameNext]_vars

(***************************************************************************)
(* The stitcher on one record of one page with one image, the payload of   *)
(* the image drawn from the data URIs and raw payloads built below.        *)
(***************************************************************************)
MaxSubtypeLen == 3

\* the tokens a subtype is built of
SubtypeTokens == {"png", "+", "/"}

RECURSIVE TokenSeqs(_, _)
TokenSeqs(S, n) ==
    IF n = 0 THEN {<<>>}
    ELSE TokenSeqs(S, n - 1)
            \cup { Append(t, x) : t \in TokenSeqs(S, n - 1), x \in S }

\* the values of image_base64: data URIs of media type image/... and
\* application/..., and raw base64
Payloads ==
    { <<"data", ":", media, "/">> \o subtype \o <<";", "base64", ",", encoded>> :
          media \in {"image", "application"},
          subtype \in TokenSeqs(SubtypeTokens, MaxSubtypeLen),
          encoded \in {"QkE", "QkI", "Qk"} }
        \cup { <<encoded>> : encoded \in {"QkE", "QkI", "Qk"} }

PayloadInit ==
    /\ target = "_perform_stitch_and_pandoc_workflow"
    /\ image_paths = <<>>
    /\ \E payload \in Payloads :
        json_dir = [n \in JsonNames |->
            IF n = "a"
            THEN [kind |-> "record", by |-> "earlier run",
                  data |-> [type |-> "object",
                            pages |-> <<[markdown |-> <<Ref("", "img1")>>,
                                         images |-> <<ImageInfo("img1", payload)>>]>>]]
            ELSE NoFile]
    /\ other_entries = FALSE
    /\ pc = "start"
    /\ i = 0
    /\ calls = <<>>
    /\ BatchLocalsInit
    /\ StitchLocalsInit
    /\ progress = NoProgress
    /\ FrameAtRest

PayloadNext ==
    \/ StartStitch
    \/ CollectJsonFiles
    \/ OpenStitchedFile
    \/ BeginRecord
    \/ BeginPage
    \/ StitchImage
    \/ WritePage
    \/ RunPandoc

SpecPayload == PayloadInit /\ [][PayloadNext]_vars

\* the same, the worker thread being scheduled as long as it has a step to
\* take
SpecLive == SpecPayload /\ WF_vars(PayloadNext)

(***************************************************************************)
(* The batch worker and the main loop together: the worker queues its      *)
(* calls with wx.CallAfter (calls), the main loop dequeues and runs them.  *)
(* A helper's status message is a callable that, when the main loop runs   *)
(* it, queues update_status(msg, 1) behind whatever is queued by then.     *)
(***************************************************************************)
\* lines 750-754, 769-772, 783-786: lambda msg: wx.CallAfter(self.update_status, msg, 1)
status_callback(call) == StatusCall(call.text, call.args, 1)

\* the main loop runs the callable at the head of the queue: a callable the
\* main loop itself queued (pending) is behind the worker's calls queued
\* before it (after) and ahead of those queued later
RunCallAfter ==
    /\ Batching
    /\ IF pending # <<>> /\ Head(pending).after <= taken
       THEN /\ delivered' = Append(delivered, Head(pending).call)
            /\ pending' = Tail(pending)
            /\ UNCHANGED taken
       ELSE /\ taken < Len(calls)
            /\ taken' = taken + 1
            /\ LET call == calls[taken + 1]
               IN  IF call.fn = "status_callback"
                   THEN /\ pending' = Append(pending, [after |-> Len(calls),
                                                       call |-> status_callback(call)])
                        /\ UNCHANGED delivered
                   ELSE /\ delivered' = Append(delivered, call)
                        /\ UNCHANGED pending
    /\ UNCHANGED <<worker_vars, progress, mistral_client, current_opened_folder_path,
                   all_selected_item_paths, run_ocr_button, stitch_pdf_button,
                   delete_button, threads>>

\* a batch worker on one selected image
DeliveryInit ==
    /\ BatchInit
    /\ Len(image_paths) = 1
    /\ pc = "start"
    /\ i = 0
    /\ calls = <<>>
    /\ BatchLocalsInit
    /\ StitchLocalsInit
    /\ progress = NoProgress
    /\ FrameAtRest

DeliveryNext ==
    \/ StartWorker
    \/ BeginItem
    \/ Normalize
    \/ Encode
    \/ Submit
    \/ Convert
    \/ Persist
    \/ EndShare
    \/ Complete
    \/ RunCallAfter

SpecDelivery == DeliveryInit /\ [][DeliveryNext]_vars
(***************************************************************************)
(* What the run left behind, read off the state.                           *)
(***************************************************************************)
Indices == 0..(total_files - 1)

RecordsInStore == { n \in JsonNames : json_dir[n] # NoFile }

HardFailures == { j \in Indices : failed_at[j] # "none" }

ProgressCalls == SelectSeq(calls, LAMBDA c : c.fn = "update_progress")

LastProgressValue == ProgressCalls[Len(ProgressCalls)].value

ProcessingCalls ==
    SelectSeq(calls, LAMBDA c : c.fn = "update_status" /\ c.text = "Processing file")

FailureTexts ==
    [normalize |-> "Failed PDF conversion", encode |-> "Failed PDF encoding",
     submit |-> "Failed OCR request", persist |-> "Failed save JSON"]

FailureReported(j) ==
    \E k \in 1..Len(calls) :
        calls[k] = StatusCall(FailureTexts[failed_at[j]], <<image_paths[j + 1]>>, 0)

WrittenBy(j) ==
    /\ json_dir[JsonName(image_paths[j + 1])] # NoFile
    /\ json_dir[JsonName(image_paths[j + 1])].by = image_paths[j + 1]

\* C1 (as claimed): after a batch run over N items with K hard failures the
\* store holds exactly N-K records and the last progress value is 100.
C1_RecordsAreNMinusK ==
    Batching /\ pc = "done" =>
        /\ Cardinality(RecordsInStore) = total_files - Cardinality(HardFailures)
        /\ LastProgressValue = 100

\* C4 (as claimed): the k-th quarter of an item's share is reported only
\* after the item's k-th sub-step has completed.
C4_QuarterAfterItsSubStep ==
    \A k \in 1..Len(calls) :
        calls[k].fn = "update_progress" /\ calls[k].site \in 1..4
            => SubSteps[calls[k].site] \in steps_done[calls[k].item]

\* C4 (amended): quarter k = 1..3 of an item is reported before its k-th
\* sub-step starts, once the sub-steps before it have completed; the end of
\* the share is reported once normalize and encode have completed and the
\* request has been made, whether submit and persist succeeded or failed,
\* and is not reported for an item that failed at normalize or encode.
C4_QuarterBeforeItsSubStep ==
    /\ \A k \in 1..Len(calls) :
        LET c == calls[k] IN
        c.fn = "update_progress" /\ c.site \in 1..4 =>
            /\ \A s \in 1..(c.site - 1) :
                   s <= 2 => SubSteps[s] \in steps_done[c.item]
            /\ c.site = 4 =>
                   /\ requests[c.item] >= 1
                   /\ failed_at[c.item] \in {"none", "submit", "persist"}
    /\ Len(calls) > 0 =>
        LET c == calls[Len(calls)] IN
        c.fn = "update_progress" /\ c.site \in 1..3 =>
            /\ SubSteps[c.site] \notin steps_done[c.item]
            /\ failed_at[c.item] = "none"

C4_Witness ==
    /\ Batching
    /\ pc = "done"
    /\ \E j \in Indices :
        /\ failed_at[j] = "persist"
        /\ \E k \in 1..Len(calls) : calls[k] = ProgressCall(ProgressEnd(j, total_files), j, 4)
    /\ \E j \in Indices :
        /\ failed_at[j] = "normalize"
        /\ \E k \in 1..Len(calls) : calls[k].fn = "update_progress" /\ calls[k].item = j
        /\ \A k \in 1..Len(calls) :
            calls[k].fn = "update_progress" /\ calls[k].item = j => calls[k].site = 1

\* C5: every item of the list is attempted exactly once, in list order,
\* whatever failed before; every failure is reported by a status message and
\* the run goes on to the items after it until the list is exhausted.
C5_ContinueOnError ==
    /\ Len(ProcessingCalls) <= total_files
    /\ \A k \in 1..Len(ProcessingCalls) :
           ProcessingCalls[k].args = <<k, total_files, image_paths[k]>>
    /\ Batching /\ pc \notin {"start", "done"} =>
           Len(ProcessingCalls) = (IF pc \in {"item", "complete"} THEN i ELSE i + 1)
    /\ Batching /\ pc = "done" => Len(ProcessingCalls) = total_files
    /\ \A j \in HardFailures : FailureReported(j)

C5_Witness ==
    /\ Batching
    /\ pc = "done"
    /\ total_files >= 2
    /\ failed_at[0] # "none"
    /\ Len(ProcessingCalls) = total_files
    /\ failed_at[1] = "none"

\* C6 (as claimed): a failed item leaves no record file of its own under its
\* key: the run neither creates nor modifies one.
C6_NoFileForFailedItem ==
    \A j \in HardFailures : ~WrittenBy(j)

\* C7 (as claimed): a response that cannot be converted (its model_dump or
\* dict raises, or it offers neither and is not serialisable) is persisted
\* as an error-marker record under the item's key, unless the file itself
\* could not be opened or written.
C7_MarkerForUnconvertible ==
    /\ Batching
    /\ pc = "end_share"
    /\ ocr_response_obj # None
    /\ ~ocr_response_obj.convertible
    /\ save_exception \notin {"OSError (open)", "OSError (write)"}
    => json_dir[JsonName(image_path)] =
           [kind |-> "record", data |-> ErrorMarker, by |-> image_path]

\* C8: at most one conversion artifact exists, it belongs to the item being
\* processed, and none exists between two items or after the run, on every
\* exit path of an item.
C8_ArtifactScoped ==
    /\ Cardinality(temp_pdfs) <= 1
    /\ temp_pdfs \subseteq tmpdirs
    /\ tmpdirs \subseteq {i}
    /\ pc \in {"start", "item", "end_share", "complete", "done"} => tmpdirs = {}

C8_Witness ==
    /\ Batching
    /\ total_files >= 2
    /\ failed_at[0] = "encode"
    /\ i = 1
    /\ pc = "submit"
    /\ temp_pdfs = {1}

\* C9: an item is submitted to the OCR service at most once in a run; a
\* failed request is final: the item is reported as failed, nothing is
\* written for it and the run moves on.
C9_NoRetry ==
    /\ \A j \in Indices : requests[j] <= 1
    /\ \A j \in Indices :
        failed_at[j] = "submit" =>
            /\ requests[j] = 1
            /\ FailureReported(j)
            /\ ~WrittenBy(j)
            /\ "persist" \notin steps_done[j]
    /\ Batching /\ pc = "done" => i = total_files

C9_Witness ==
    /\ Batching
    /\ pc = "done"
    /\ total_files >= 2
    /\ failed_at[0] = "submit"
    /\ requests[0] = 1
    /\ requests[1] = 1
    /\ "persist" \in steps_done[1]

StatusCalls == SelectSeq(calls, LAMBDA c : c.fn = "update_status")

LastStatus == StatusCalls[Len(StatusCalls)]

Succeeded == Indices \ HardFailures

\* C10 (as claimed): the final status of a run carries the number of items
\* that succeeded and the number that failed.
C10_FinalStatusCarriesCounts ==
    Batching /\ pc = "done" =>
        LastStatus.args = <<Cardinality(Succeeded), Cardinality(HardFailures)>>

FinalStitchStatuses ==
    { StatusCall("Final PDF", <<"final_document.pdf">>, 0),
      StatusCall("Pandoc failed.", <<>>, 0),
      StatusCall("Pandoc not found.", <<>>, 0),
      StatusCall("Pandoc error.", <<>>, 0),
      StatusCall("Collecting JSON files...", <<>>, 0) }

\* C10 (amended): the final status of a run carries no counts.  A batch run
\* ends with the same completion message whatever number of its items
\* failed; each failure was reported by a status message of its own when it
\* happened.  A stitch run ends with a status that names the outcome of the
\* PDF conversion (or, stopped for want of records, with the status it
\* started with).
C10_FinalStatusIsFixed ==
    pc = "done" =>
        IF Batching
        THEN /\ LastStatus =
                  StatusCall("OCR processing complete for selected files.", <<>>, 0)
             /\ \A j \in HardFailures : FailureReported(j)
        ELSE LastStatus \in FinalStitchStatuses

C10_Witness ==
    /\ Batching
    /\ pc = "done"
    /\ HardFailures # {}
    /\ Succeeded # {}
    /\ LastStatus.args = <<>>

\* floor(100 * j / n)
ShareBoundary(j, n) == (100 * j) \div n

\* C3 (as claimed): the progress values of a batch run never decrease, start
\* at 0 and end at 100, and every value issued while item i of N is
\* processed lies in [floor(100*i/N), floor(100*(i+1)/N)].
C3_MonotoneWithinShares ==
    /\ progress.before <= progress.value
    /\ progress.site = 0 => progress.value = 0
    /\ pc = "done" => progress.value = 100
    /\ progress.site \in 1..4 =>
        /\ ShareBoundary(progress.item, total_files) <= progress.value
        /\ progress.value <= ShareBoundary(progress.item + 1, total_files)

ThreadsRunning(thread_target) ==
    Cardinality({ k \in 1..Len(threads) : threads[k].target = thread_target })

\* C2 (as claimed): at most one batch run and at most one stitch run is in
\* flight at any time, whatever the user does while a worker runs.
C2_OneRunOfAKind ==
    /\ ThreadsRunning("_perform_ocr_workflow_for_list") <= 1
    /\ ThreadsRunning("_perform_stitch_and_pandoc_workflow") <= 1

(***************************************************************************)
(* The stitch run, read off the state.                                     *)
(***************************************************************************)
\* the entries of the log for which open(path, "wb") created a file
FilesCreated ==
    SelectSeq(image_log, LAMBDA e : e.outcome \in {"write error", "written"})

\* C11 (as claimed): the files a stitch run writes are named by the counter
\* values 0, 1, ..., m-1 with no gap, and no two images of the run are
\* written under the same counter value or the same file name, whatever
\* decode or write failures occur in between.
C11_CounterContiguousNeverReused ==
    Stitching =>
        /\ \A k \in 1..Len(FilesCreated) : FilesCreated[k].filename.counter = k - 1
        /\ \A j, k \in 1..Len(FilesCreated) :
               j # k => FilesCreated[j].filename # FilesCreated[k].filename

\* the entries of the log that belong to the page being stitched
PageLog ==
    SelectSeq(image_log, LAMBDA e : e.source.record = json_file_path
                                    /\ e.source.page = page_idx
                                    /\ e.outcome # "not an object")

\* the two forms of the placeholder of an id
Placeholders(id) == {Ref("", id), Ref(id, id)}

\* C12 (as claimed): when the page text is about to be appended, every
\* image of the page that was decoded has each reference to its id replaced
\* by a link to the file written for it, and its id occurs nowhere in the
\* page text.
C12_DecodedIdsAreReplaced ==
    Stitching /\ pc = "write_page" =>
        \A n \in 1..Len(PageLog) :
            LET e == PageLog[n] IN
            e.outcome \in {"open error", "write error", "written"} =>
                \A k \in 1..Len(markdown_content) :
                    /\ "id" \in DOMAIN markdown_content[k]
                           => markdown_content[k].id # e.id
                    /\ page_data.markdown[k] \in Placeholders(e.id)
                           => markdown_content[k] =
                                  Link("", RelativeImagePath(e.filename))

\* the first image of the page with this id whose file was written
FirstWritten(id) ==
    PageLog[CHOOSE n \in 1..Len(PageLog) :
                /\ PageLog[n].outcome = "written" /\ PageLog[n].id = id
                /\ \A m \in 1..(n - 1) :
                       ~(PageLog[m].outcome = "written" /\ PageLog[m].id = id)]

WrittenIds == { PageLog[n].id : n \in { m \in 1..Len(PageLog) : PageLog[m].outcome = "written" } }

\* C12 (amended): when the page text is about to be appended, every
\* reference in the forms ![](id) and ![id](id) to an image of the page that
\* was decoded and written to its file has become ![](path), path being the
\* relative path of the file of the first written image with that id; every
\* other token of the page (a reference with another alt text, a reference
\* to an image that was not written, plain text) is as it was stored.
C12_WrittenPlaceholdersAreReplaced ==
    Stitching /\ pc = "write_page" =>
        /\ Len(markdown_content) = Len(page_data.markdown)
        /\ \A k \in 1..Len(markdown_content) :
            LET stored == page_data.markdown[k] IN
            IF \E id \in WrittenIds : stored \in Placeholders(id)
            THEN markdown_content[k] =
                     Link("", RelativeImagePath(FirstWritten(stored.id).filename))
            ELSE markdown_content[k] = stored

C12_Witness ==
    /\ Stitching
    /\ pc = "write_page"
    /\ WrittenIds = {"img3", "img2"}
    /\ \E k \in 1..Len(markdown_content) : markdown_content[k] = Ref("fig", "img2")
    /\ \E k \in 1..Len(markdown_content) :
           /\ page_data.markdown[k] = Ref("img2", "img2")
           /\ "path" \in DOMAIN markdown_content[k]

\* C15 (as claimed): a malformed entry of a page's images list skips only
\* that image, the page going on with its next image or with its text; a
\* record that cannot be parsed skips only that record, nothing written so
\* far is lost and the run goes on with the next record.
C15_SmallestGranularity ==
    [][/\ Stitching /\ pc = "image" /\ image_info.type # "object"
           => /\ pc' \in {"image", "write_page"}
              /\ i' = i
              /\ page_idx' = page_idx
       /\ Stitching /\ pc = "record" /\ json_dir[json_file_path].kind # "record"
           => /\ pc' = NextRecord
              /\ i' = i + 1
              /\ stitched_md' = stitched_md
              /\ images_dir' = images_dir]_vars

\* markdown with every image reference, rewritten or not, taken for the same
Shape(markdown) ==
    [k \in 1..Len(markdown) |->
        IF "text" \in DOMAIN markdown[k] THEN markdown[k] ELSE [image |-> "reference"]]

RECURSIVE PageTexts(_)
\* every non-empty page's text followed by one blank line, in stored order
PageTexts(pages) ==
    IF pages = <<>> THEN <<>>
    ELSE LET page     == Head(pages)
             markdown == IF "markdown" \in DOMAIN page THEN page.markdown ELSE <<>>
         IN  (IF markdown = <<>> THEN <<>> ELSE Shape(markdown) \o <<Text("\n\n")>>)
                 \o PageTexts(Tail(pages))

\* what a stored file is to contribute: the pages of a record that parses
\* to an object
RecordText(name) ==
    LET file == json_dir[name]
    IN  IF file.kind = "record" /\ file.data.type = "object" /\ "pages" \in DOMAIN file.data
        THEN PageTexts(file.data.pages)
        ELSE <<>>

RECURSIVE RecordTexts(_)
RecordTexts(names) ==
    IF names = <<>> THEN <<>>
    ELSE RecordText(Head(names)) \o RecordTexts(Tail(names))

\* C13 (as claimed): the merged document is the concatenation, over the
\* records in sorted key order and over each record's pages in stored
\* order, of every non-empty page's text followed by one blank line.
C13_DocumentIsConcatenation ==
    Stitching /\ pc \in {"stitched", "done"} /\ json_files # <<>> =>
        Shape(stitched_md.text) = RecordTexts(NameOrder)

\* the file names of the images directory
FileNames(dir) == { f.name : f \in dir }

\* C14: a second stitch run over the same records (meeting the same
\* failures of open and write) leaves the document and the images
\* directory exactly as the first run left them: the same text, the same
\* files under the same names with the same contents, numbered from 0 again.
C14_SecondRunIsIdentical ==
    Stitching /\ first_run.ended /\ first_run.records = json_dir
              /\ pc \in {"stitched", "done"} =>
        /\ stitched_md.text = first_run.text
        /\ images_dir = first_run.images
        /\ FileNames(images_dir) = FileNames(first_run.images)
        /\ \A k \in 1..Len(FilesCreated) : FilesCreated[k].filename.counter < Len(FilesCreated)

C14_Witness ==
    /\ Stitching
    /\ first_run.ended
    /\ first_run.records = json_dir
    /\ pc = "done"
    /\ Cardinality(first_run.images) >= 2
    /\ Len(first_run.text) >= 2
    /\ image_file_counter >= 2

LastCall == calls[Len(calls)]

\* C16: the step on a record whose top-level value is not an object logs a
\* warning and does nothing else: no text, no file, no counter value, no
\* image processed; the run goes on with the next record or, after the
\* last, with the conversion to PDF.
C16_NonObjectRecordSkipped ==
    [][/\ Stitching /\ pc = "record"
       /\ json_dir[json_file_path].kind = "record"
       /\ json_dir[json_file_path].data.type # "object"
       => /\ LastCall' = LogWarningCall("Skipping non-dict JSON", <<json_file_path>>)
          /\ stitched_md' = stitched_md
          /\ images_dir' = images_dir
          /\ image_file_counter' = image_file_counter
          /\ image_log' = image_log
          /\ i' = i + 1
          /\ pc' = NextRecord]_vars

C16_Witness ==
    /\ Stitching
    /\ pc = "done"
    /\ PandocSucceeded(pandoc_outcome)
    /\ json_dir["a"].kind = "record" /\ json_dir["a"].data.type = "array"
    /\ json_dir["b"].kind = "record" /\ json_dir["b"].data = OcrDict
    /\ \E k \in 1..Len(calls) :
           calls[k] = LogWarningCall("Skipping non-dict JSON", <<"a">>)
    /\ Shape(stitched_md.text) = RecordText("b")
    /\ Len(stitched_md.text) > 0

\* C17: the step on an image whose payload does not decode logs the error
\* and does nothing else: no file, the counter as it was, the page's
\* markdown as it was; the page goes on with its next image or, after the
\* last, with the appending of its text.
C17_DecodeFailureSkipsImage ==
    [][/\ Stitching /\ pc = "image"
       /\ image_info.type = "object"
       /\ ImageOutcomes(image_info) = {"decode error"}
       => /\ LastCall' = LogErrorCall("Img proc. error",
                                      <<image_info.id, json_file_path, "str(e)">>)
          /\ images_dir' = images_dir
          /\ image_file_counter' = image_file_counter
          /\ markdown_content' = markdown_content
          /\ stitched_md' = stitched_md
          /\ i' = i /\ page_idx' = page_idx
          /\ img_idx' = img_idx + 1
          /\ pc' = NextImage]_vars

C17_Witness ==
    /\ Stitching
    /\ pc \in {"stitched", "done"}
    /\ \E n \in 1..Len(image_log) :
        /\ image_log[n].outcome = "decode error"
        /\ \E m \in (n + 1)..Len(image_log) :
            /\ image_log[m].outcome = "written"
            /\ image_log[m].source.page = image_log[n].source.page
            /\ image_log[m].source.record = image_log[n].source.record
            /\ image_log[m].filename.counter = 0
    /\ \E k \in 1..Len(stitched_md.text) : stitched_md.text[k] = Ref("img4", "img4")

\* page_data.get("markdown"), None and "" alike
StoredMarkdown == IF "markdown" \in DOMAIN page_data THEN page_data.markdown ELSE <<>>

\* C18: the step on a page whose markdown is empty or absent does nothing:
\* no text and no separator, none of its images processed, no file, no
\* counter value; the record goes on with its next page.
C18_EmptyPageContributesNothing ==
    [][/\ Stitching /\ pc = "page" /\ StoredMarkdown = <<>>
       => /\ stitched_md' = stitched_md
          /\ images_dir' = images_dir
          /\ image_file_counter' = image_file_counter
          /\ image_log' = image_log
          /\ calls' = calls
          /\ pc' = NextPage(page_idx)]_vars

C18_Witness ==
    /\ Stitching
    /\ pc = "done"
    /\ json_dir["b"] = NoFile
    /\ json_dir["a"].kind = "record"
    /\ json_dir["a"].data.type = "object"
    /\ "pages" \in DOMAIN json_dir["a"].data
    /\ json_dir["a"].data.pages = <<PageEmpty, PageNoMarkdown, PageMixed>>
    /\ image_log # <<>>
    /\ \A n \in 1..Len(image_log) : image_log[n].source.page = 2
    /\ Shape(stitched_md.text) = Shape(PageMixed.markdown) \o <<Text("\n\n")>>

\* the last three calls of the worker enable the three buttons
ButtonsReenabled ==
    Len(calls) >= 3 /\ SubSeq(calls, Len(calls) - 2, Len(calls)) = EnableButtons

\* a stitch run that found no record to stitch has left no document, no
\* image and no pandoc run, and has reset the progress and the buttons
C19_HardStopLeavesNothing ==
    Stitching /\ pc = "done" /\ json_files = <<>> =>
        /\ ~stitched_md.exists
        /\ images_dir = {}
        /\ pandoc_outcome = NoOutcome
        /\ LastProgressValue = 0
        /\ ButtonsReenabled

\* C19: a stitch run stops early only before it has begun: when it finds
\* no record it leaves nothing and resets progress and buttons; once it
\* has found records (progress 20) nothing makes it end short of the
\* conversion to PDF and of the re-enabling of the buttons.
C19_HardStopOnlyBeforeBegin ==
    /\ C19_HardStopLeavesNothing
    /\ Stitching => pc # "uncaught exception"

\* the worker has reported the success of pandoc
SuccessReported ==
    /\ LastProgressValue = 100
    /\ \E k \in 1..Len(calls) :
        calls[k] = MessageBoxCall("Successfully created PDF", <<"final_document.pdf">>)

\* the worker has reported a failure of pandoc
PandocFailureReported ==
    /\ LastProgressValue = 0
    /\ \E k \in 1..Len(calls) :
        /\ calls[k].fn = "wx.LogError"
        /\ calls[k].text \in {"Pandoc error", "Pandoc not found.", "Error running Pandoc"}
    /\ \A k \in 1..Len(ProgressCalls) : ProgressCalls[k].value # 100

\* C20: a run that reached pandoc reports progress 100 and success exactly
\* when pandoc returned the exit code 0; on any other exit code, on a
\* missing pandoc and on any other exception it reports the failure with
\* progress 0; the three buttons are re-enabled in every case.
C20_SuccessIffExitCodeZero ==
    Stitching /\ pc = "done" /\ pandoc_outcome # NoOutcome =>
        LET exit_zero == /\ pandoc_outcome.raised = "nothing"
                         /\ pandoc_outcome.returncode = 0
        IN  /\ SuccessReported <=> exit_zero
            /\ ~exit_zero => PandocFailureReported
            /\ exit_zero => \A k \in 1..Len(calls) : calls[k].fn # "wx.LogError"
                                \/ calls[k].text \notin {"Pandoc error", "Pandoc not found.",
                                                         "Error running Pandoc"}
            /\ ButtonsReenabled

C20_Witness ==
    /\ Stitching
    /\ pc = "done"
    /\ pandoc_outcome.raised = "nothing"
    /\ pandoc_outcome.returncode = 1
    /\ stitched_md.text # <<>>
    /\ PandocFailureReported
    /\ ButtonsReenabled

\* the image_base64 of the entry of the images list a log entry is about
PayloadOf(source) ==
    json_dir[source.record].data.pages[source.page + 1].images[source.img + 1].image_base64

\* the position of the ";base64," that ends a "data:image/<subtype>" prefix,
\* 0 when the payload has no such prefix
ImagePrefixEnd(payload) ==
    LET ends == { k \in 5..(Len(payload) - 2) :
                     SubSeq(payload, k, k + 2) = <<";", "base64", ",">> }
    IN  IF StartsWith(payload, <<"data", ":", "image", "/">>) /\ ends # {}
        THEN CHOOSE k \in ends : \A j \in ends : k <= j
        ELSE 0

\* the extension the payload calls for: the subtype of its data:image/
\* prefix when that is alphanumeric, jpeg otherwise
ExtensionOfPayload(payload) ==
    LET subtype == SubSeq(payload, 5, ImagePrefixEnd(payload) - 1)
    IN  IF ImagePrefixEnd(payload) # 0 /\ IsAlnum(subtype) THEN subtype ELSE <<"jpeg">>

\* what follows the prefix of a payload, the whole of a raw payload
AfterPrefix(payload) ==
    IF "," \in Range(payload)
    THEN SubSeq(payload, IndexOf(payload, ",") + 1, Len(payload))
    ELSE payload

\* C23: every file written for an image has the extension its payload
\* calls for (the alphanumeric subtype of a data:image/ prefix, jpeg in
\* every other case) and holds the bytes decoded from what follows the
\* prefix.
C23_ExtensionFromPayload ==
    Stitching =>
        \A n \in 1..Len(image_log) :
            image_log[n].outcome = "written" =>
                /\ image_log[n].filename.image_type
                       = ExtensionOfPayload(PayloadOf(image_log[n].source))
                /\ \E f \in images_dir :
                    /\ f.name = image_log[n].filename
                    /\ f.bytes = b64decode(AfterPrefix(PayloadOf(image_log[n].source)))

\* the files the run in progress has created, as the images directory
\* holds them
FilesOfThisRun ==
    { f \in images_dir : \E n \in 1..Len(FilesCreated) : FilesCreated[n].filename = f.name }

\* the document of a run that followed another holds nothing but text of
\* the records it stitched
C29_DocumentOfLatestRun ==
    Stitching /\ first_run.ended /\ pc \in {"stitched", "done"} /\ json_files # <<>> =>
        /\ Len(stitched_md.text) <= Len(RecordTexts(NameOrder))
        /\ Range(Shape(stitched_md.text)) \subseteq Range(RecordTexts(NameOrder))

\* C29: after a stitch run that followed another into the same folder, the
\* document holds only pages of the records of the latest run, the images
\* directory holds exactly the files the latest run wrote, and no two of
\* its files share a counter value.
C29_OnlyLatestRunRemains ==
    /\ C29_DocumentOfLatestRun
    /\ Stitching /\ first_run.ended /\ pc \in {"stitched", "done"} /\ json_files # <<>> =>
        /\ images_dir = FilesOfThisRun
        /\ \A f, g \in images_dir : f.name.counter = g.name.counter => f = g

\* item j went through all its sub-steps, the write of its record included
Persisted(j) == "persist" \in steps_done[j]

\* C28: the record of every item that was persisted is in the store as
\* that item wrote it: no other item of the run has written to its key.
C28_DistinctItemsDistinctRecords ==
    Batching => \A j \in Indices : Persisted(j) => WrittenBy(j)

\* C21: a second batch run replaces records and never loses one: a record
\* the first run left under a key is, after the second run, either as it
\* was or the record an item of the second run persisted under that key.
C21_LatestSuccessfulRecordKept ==
    Batching /\ first_run.ended /\ pc = "done" =>
        \A n \in JsonNames :
            first_run.records[n].kind = "record" =>
                /\ json_dir[n].kind = "record"
                /\ \/ json_dir[n] = first_run.records[n]
                   \/ \E j \in Indices : /\ JsonName(image_paths[j + 1]) = n
                                         /\ Persisted(j)
                                         /\ json_dir[n].by = image_paths[j + 1]

\* the update_status and update_progress calls among calls
Updates(seq) == SelectSeq(seq, LAMBDA c : c.fn \in {"update_status", "update_progress"})

\* the updates the worker has issued, in the order it issued them: a
\* helper's message is the update its callback posts
IssuedUpdates ==
    Updates([k \in 1..Len(calls) |->
                IF calls[k].fn = "status_callback" THEN status_callback(calls[k])
                ELSE calls[k]])

\* C24: the updates the main loop has run are the first of the updates the
\* worker issued, in the order it issued them.
C24_DeliveredInIssueOrder ==
    Batching =>
        /\ Len(Updates(delivered)) <= Len(IssuedUpdates)
        /\ Updates(delivered) = SubSeq(IssuedUpdates, 1, Len(Updates(delivered)))

\* C22: without a client the run-OCR and stitch buttons are never enabled
\* and no worker thread is ever started, whatever the user does; nothing is
\* queued for the main loop but what the filesystem watch queues.
C22_NoClientNoWorker ==
    ~mistral_client =>
        /\ ~run_ocr_button
        /\ ~stitch_pdf_button
        /\ threads = <<>>
        /\ \A k \in 1..Len(pending) :
            pending[k] \in {"refresh_tree_due_to_fs_event", "handle_root_folder_disappeared"}

C22_Witness ==
    /\ ~mistral_client
    /\ current_opened_folder_path = "scans"
    /\ ocr_target_paths(all_selected_item_paths) # <<>>
    /\ delete_button
    /\ pending # <<>>

\* C25: while a worker thread is in flight the three buttons are disabled.
C25_DisabledDuringRun ==
    threads # <<>> => ~run_ocr_button /\ ~stitch_pdf_button /\ ~delete_button

\* C26: every run that is started ends with the three buttons re-enabled.
C26_EveryRunEnds ==
    (pc = "start") ~> (pc = "done" /\ ButtonsReenabled)

\* C27: with no worker in flight, the run-OCR button is enabled only with a
\* client and a selected file of a supported format, and the delete button
\* only with a selection and an open folder.
C27_ButtonsFollowSelection ==
    threads = <<>> =>
        /\ run_ocr_button =>
              mistral_client /\ ocr_target_paths(all_selected_item_paths) # <<>>
        /\ delete_button =>
              all_selected_item_paths # <<>> /\ current_opened_folder_path # NoFolder
====
